---------------------------- MODULE Spec2Model ----------------------------
(***************************************************************************)
(* Notes service of src/notes_backend/src/api/main.py: a FastAPI           *)
(* application over one SQLite table `notes`.                              *)
(*                                                                         *)
(* Every request opens its own connection (_db_conn), so requests share    *)
(* nothing but the database file.  A write statement and the commit that   *)
(* follows it form one SQLite transaction: the statement takes the write   *)
(* lock, other connections keep reading the committed rows, and the        *)
(* change becomes visible at the commit.  The model therefore takes        *)
(* "execute; commit" as one atomic storage step, and every SELECT as one   *)
(* atomic storage step; the steps of different requests interleave         *)
(* freely.                                                                 *)
(*                                                                         *)
(* Strings are sequences: titles and contents of one-character strings,    *)
(* timestamps of character codes (SQLite compares TEXT bytewise).          *)
(***************************************************************************)
EXTENDS Integers, Sequences, FiniteSets, Bags, TLC

VARIABLES
    notes,      \* the table: id -> [title, content, created_at, updated_at]
    seq,        \* sqlite_sequence: the largest id AUTOINCREMENT has assigned
    clock,      \* the last instant the wall clock was read at
    inflight,   \* bag of create/update requests between two of their steps
    nRequests,  \* create and update requests admitted so far
    resp,       \* the response being sent, NoResponse once it is out
    returned,   \* history: ids returned by creates (201)
    deleted,    \* history: ids whose delete answered 204
    submitted   \* history: id of a row -> the title its last writer submitted

vars == <<notes, seq, clock, inflight, nRequests, resp, returned, deleted, submitted>>

-----------------------------------------------------------------------------
(* Bounds *)

\* create and update requests admitted, their steps interleaved
MaxRequests == 2

\* create and update requests admitted, one after the other
MaxSeqRequests == 3

-----------------------------------------------------------------------------
(* Program constants *)

TitleMaxLen == 200

ContentMaxLen == 10000

MinId == 1

-----------------------------------------------------------------------------
(* Timestamps: datetime.now(timezone.utc).isoformat() *)

DotCh == 46

ZeroCh == 48

\* "+00:00"
UtcOffset == <<43, 48, 48, 58, 48, 48>>

\* The instants the clock is read at: on a second, off it, on the next second.
Instants == { [sec |-> 0, us |-> 0], [sec |-> 0, us |-> 5], [sec |-> 1, us |-> 0] }

\* Successive reads of the wall clock do not go back; clock holds the last
\* value read, and a request reads any instant not before it.
NotBefore(a, b) == a.sec < b.sec \/ (a.sec = b.sec /\ a.us <= b.us)

Digit(d) == ZeroCh + d

\* isoformat leaves the fraction out when the microsecond is 0.  The fields up
\* to the second and the microsecond field are fixed-width numerals; here each
\* is one digit wide.
IsoFormat(t) ==
    IF t.us = 0
      THEN <<Digit(t.sec)>> \o UtcOffset
      ELSE <<Digit(t.sec), DotCh, Digit(t.us)>> \o UtcOffset

_utc_now_iso(t) == IsoFormat(t)

\* SQLite's BINARY collation on TEXT: memcmp, then the shorter string first.
StrLess(a, b) ==
    LET n == IF Len(a) < Len(b) THEN Len(a) ELSE Len(b)
    IN  \/ \E i \in 1..n : a[i] < b[i] /\ \A j \in 1..(i-1) : a[j] = b[j]
        \/ Len(a) < Len(b) /\ \A j \in 1..n : a[j] = b[j]

StrLeq(a, b) == a = b \/ StrLess(a, b)

-----------------------------------------------------------------------------
(* Payload validation: NoteCreate / NoteUpdate *)

Whitespace == {" ", "\t", "\n"}

RECURSIVE LStrip(_)
LStrip(s) == IF s # <<>> /\ Head(s) \in Whitespace THEN LStrip(Tail(s)) ELSE s

RECURSIVE RStrip(_)
RStrip(s) ==
    IF s # <<>> /\ s[Len(s)] \in Whitespace THEN RStrip(SubSeq(s, 1, Len(s) - 1)) ELSE s

Strip(s) == RStrip(LStrip(s))

LongTitle == [i \in 1..(TitleMaxLen + 1) |-> "a"]

LongContent == [i \in 1..(ContentMaxLen + 1) |-> "x"]

\* JSON bodies: content may be left out.
GoodPayloads ==
    { [title |-> <<" ", "a", "\t">>],
      [title |-> <<"b", " ", "c">>, content |-> <<"x">>] }

BadPayloads ==
    { [title |-> <<>>],
      [title |-> <<" ", "\t", " ">>, content |-> <<"x">>],
      [title |-> LongTitle],
      [title |-> <<"a">>, content |-> LongContent] }

Payloads == GoodPayloads \cup BadPayloads

\* a validator that returns the title as submitted
NoStripTitle(raw) == raw

\* v2 = v.strip(), returned in place of the submitted title
_title_non_empty(raw) == Strip(raw)

\* Field(..., min_length=1, max_length=200) is checked on the submitted string,
\* then the validator strips it and refuses an empty result.

TitleOk(raw) ==
    /\ Len(raw) >= 1
    /\ Len(raw) <= TitleMaxLen
    /\ _title_non_empty(raw) # <<>>

ContentField(p) == IF "content" \in DOMAIN p THEN p.content ELSE <<>>

ContentOk(p) == Len(ContentField(p)) <= ContentMaxLen

PayloadOk(p) == TitleOk(p.title) /\ ContentOk(p)

\* an id without its ge=1 constraint
IdOkAny(id) == TRUE

\* id: int = Field(..., ge=1)
IdOk(id) == id >= MinId

PathIds == {-5, 0, 1, 2}

-----------------------------------------------------------------------------
(* Storage *)

Max(S) == CHOOSE x \in S : \A y \in S : y <= x

\* INTEGER PRIMARY KEY without AUTOINCREMENT: one more than the largest rowid.
NextRowIdNoAutoincrement == IF DOMAIN notes = {} THEN 1 ELSE Max(DOMAIN notes) + 1

\* INTEGER PRIMARY KEY AUTOINCREMENT: one more than the largest id ever assigned.
NextRowId == seq + 1

_row_to_note(id) ==
    [id |-> id, title |-> notes[id].title, content |-> notes[id].content,
     created_at |-> notes[id].created_at, updated_at |-> notes[id].updated_at]

Rows == { _row_to_note(id) : id \in DOMAIN notes }

\* ORDER BY id DESC alone
RowBeforeIdOnly(x, y) == x.id > y.id

\* ORDER BY updated_at DESC, id DESC
RowBefore(x, y) ==
    \/ StrLess(y.updated_at, x.updated_at)
    \/ x.updated_at = y.updated_at /\ x.id > y.id

RECURSIVE OrderBy(_)
OrderBy(S) ==
    IF S = {} THEN <<>>
    ELSE LET first == CHOOSE x \in S : \A y \in S \ {x} : RowBefore(x, y)
         IN  <<first>> \o OrderBy(S \ {first})

\* DELETE FROM notes WHERE id = ?
DeleteFrom(id) == [j \in DOMAIN notes \ {id} |-> notes[j]]

\* UPDATE without its WHERE clause
UpdateSetAll(r) ==
    [j \in DOMAIN notes |->
        [notes[j] EXCEPT !.title = r.title, !.content = r.content, !.updated_at = r.now]]

\* INSERT OR REPLACE in place of UPDATE
UpdateUpsert(r) ==
    [j \in DOMAIN notes \cup {r.id} |->
        IF j = r.id
          THEN [title |-> r.title, content |-> r.content,
                created_at |-> IF j \in DOMAIN notes THEN notes[j].created_at ELSE r.now,
                updated_at |-> r.now]
          ELSE notes[j]]

\* UPDATE notes SET title = ?, content = ?, updated_at = ? WHERE id = ?
UpdateSet(r) ==
    [j \in DOMAIN notes |->
        IF j = r.id
          THEN [notes[j] EXCEPT !.title = r.title, !.content = r.content,
                                !.updated_at = r.now]
          ELSE notes[j]]

NoBody == <<>>

NoResponse == [op |-> "none", status |-> 0, req |-> NoBody, body |-> NoBody]

-----------------------------------------------------------------------------
Init ==
    /\ notes = <<>>
    /\ seq = 0
    /\ clock = [sec |-> 0, us |-> 0]
    /\ inflight = EmptyBag
    /\ nRequests = 0
    /\ resp = NoResponse
    /\ returned = {}
    /\ deleted = {}
    /\ submitted = <<>>

Requests == BagToSet(inflight)

Add(r) == inflight (+) SetToBag({r})

Replace(r, r2) == (inflight (-) SetToBag({r})) (+) SetToBag({r2})

Remove(r) == inflight (-) SetToBag({r})

NewRequest(op, id, p, t) ==
    [op |-> op, pc |-> IF op = "create" THEN "insert" ELSE "exists",
     id |-> id, title |-> _title_non_empty(p.title), content |-> ContentField(p),
     now |-> _utc_now_iso(t), payload |-> p, wrote |-> FALSE]

\* The fields a 422 names.
Errors(op, id, p) ==
    (IF op \in {"get", "update", "delete"} /\ ~IdOk(id) THEN {"id"} ELSE {})
    \cup
    (IF op \in {"create", "update"} /\ ~TitleOk(p.title) THEN {"title"} ELSE {})
    \cup
    (IF op \in {"create", "update"} /\ ~ContentOk(p) THEN {"content"} ELSE {})

-----------------------------------------------------------------------------
(* A response is observed in resp for one step: Deliver sends it out, and    *)
(* the next step of any request follows.  Deliver touches nothing else, so   *)
(* it restricts no interleaving of the storage steps.                        *)
Deliver ==
    /\ resp # NoResponse
    /\ resp' = NoResponse
    /\ UNCHANGED <<notes, seq, clock, inflight, nRequests, returned, deleted, submitted>>

(* Request validation fails: the handler is never entered. *)
Reject(op, id, p) ==
    /\ resp = NoResponse
    /\ Errors(op, id, p) # {}
    /\ resp' = [op |-> op, status |-> 422, req |-> NoBody, body |-> Errors(op, id, p)]
    /\ UNCHANGED <<notes, seq, clock, inflight, nRequests, returned, deleted, submitted>>

(* GET /notes *)
ListNotes ==
    /\ resp = NoResponse
    /\ resp' = [op |-> "list", status |-> 200, req |-> NoBody, body |-> OrderBy(Rows)]
    /\ UNCHANGED <<notes, seq, clock, inflight, nRequests, returned, deleted, submitted>>

(* GET /notes/{id} *)
GetNote(id) ==
    /\ resp = NoResponse
    /\ IdOk(id)
    /\ resp' = IF id \in DOMAIN notes
                 THEN [op |-> "get", status |-> 200, req |-> [id |-> id],
                       body |-> _row_to_note(id)]
                 ELSE [op |-> "get", status |-> 404, req |-> [id |-> id],
                       body |-> NoBody]
    /\ UNCHANGED <<notes, seq, clock, inflight, nRequests, returned, deleted, submitted>>

(* DELETE /notes/{id}: DELETE and commit, then the answer by rowcount *)
DeleteNote(id) ==
    /\ resp = NoResponse
    /\ IdOk(id)
    /\ LET rowcount == Cardinality(DOMAIN notes) - Cardinality(DOMAIN DeleteFrom(id))
       IN  /\ notes' = DeleteFrom(id)
           /\ submitted' = [j \in DOMAIN submitted \cap DOMAIN DeleteFrom(id) |-> submitted[j]]
           /\ resp' = [op |-> "delete", status |-> IF rowcount = 0 THEN 404 ELSE 204,
                       req |-> [id |-> id], body |-> NoBody]
           /\ deleted' = IF rowcount = 0 THEN deleted ELSE deleted \cup {id}
    /\ UNCHANGED <<seq, clock, inflight, nRequests, returned>>

(* POST /notes, line 194: the payload is valid, the clock is read *)
CreateStart(p, t) ==
    /\ resp = NoResponse
    /\ PayloadOk(p)
    /\ NotBefore(clock, t)
    /\ clock' = t
    /\ nRequests' = nRequests + 1
    /\ inflight' = Add(NewRequest("create", 0, p, t))
    /\ UNCHANGED <<notes, seq, resp, returned, deleted, submitted>>

(* POST /notes, lines 196-201: INSERT, lastrowid, commit *)
CreateInsert(r) ==
    /\ resp = NoResponse
    /\ r.op = "create" /\ r.pc = "insert"
    /\ LET note_id == NextRowId
       IN  /\ notes' = [j \in DOMAIN notes \cup {note_id} |->
                          IF j = note_id
                            THEN [title |-> r.title, content |-> r.content,
                                  created_at |-> r.now, updated_at |-> r.now]
                            ELSE notes[j]]
           /\ seq' = IF note_id > seq THEN note_id ELSE seq
           /\ submitted' = [j \in DOMAIN submitted \cup {note_id} |->
                              IF j = note_id THEN r.payload.title ELSE submitted[j]]
           /\ inflight' = Replace(r, [r EXCEPT !.pc = "reread", !.id = note_id,
                                               !.wrote = TRUE])
    /\ UNCHANGED <<clock, nRequests, resp, returned, deleted>>

(* POST /notes, lines 202-210: the re-read and the answer *)
CreateReread(r) ==
    /\ resp = NoResponse
    /\ r.op = "create" /\ r.pc = "reread"
    /\ IF r.id \in DOMAIN notes
         THEN /\ resp' = [op |-> "create", status |-> 201, req |-> r,
                          body |-> _row_to_note(r.id)]
              /\ returned' = returned \cup {r.id}
         ELSE /\ resp' = [op |-> "create", status |-> 500, req |-> r, body |-> NoBody]
              /\ returned' = returned
    /\ inflight' = Remove(r)
    /\ UNCHANGED <<notes, seq, clock, nRequests, deleted, submitted>>

(* PUT /notes/{id}, line 245: id and payload are valid, the clock is read *)
UpdateStart(id, p, t) ==
    /\ resp = NoResponse
    /\ IdOk(id)
    /\ PayloadOk(p)
    /\ NotBefore(clock, t)
    /\ clock' = t
    /\ nRequests' = nRequests + 1
    /\ inflight' = Add(NewRequest("update", id, p, t))
    /\ UNCHANGED <<notes, seq, resp, returned, deleted, submitted>>

\* update without the existence check
UpdateNoExistenceCheck(r) ==
    /\ resp = NoResponse
    /\ r.op = "update" /\ r.pc = "exists"
    /\ inflight' = Replace(r, [r EXCEPT !.pc = "update"])
    /\ UNCHANGED <<notes, seq, clock, nRequests, resp, returned, deleted, submitted>>

(* PUT /notes/{id}, lines 248-250: the existence check *)
UpdateExists(r) ==
    /\ resp = NoResponse
    /\ r.op = "update" /\ r.pc = "exists"
    /\ IF r.id \in DOMAIN notes
         THEN /\ inflight' = Replace(r, [r EXCEPT !.pc = "update"])
              /\ resp' = resp
         ELSE /\ inflight' = Remove(r)
              /\ resp' = [op |-> "update", status |-> 404, req |-> r, body |-> NoBody]
    /\ UNCHANGED <<notes, seq, clock, nRequests, returned, deleted, submitted>>

(* PUT /notes/{id}, lines 252-256: UPDATE and commit *)
UpdateExec(r) ==
    /\ resp = NoResponse
    /\ r.op = "update" /\ r.pc = "update"
    /\ notes' = UpdateSet(r)
    /\ submitted' = [j \in DOMAIN submitted |->
                       IF j = r.id THEN r.payload.title ELSE submitted[j]]
    /\ inflight' = Replace(r, [r EXCEPT !.pc = "reread", !.wrote = (r.id \in DOMAIN notes)])
    /\ UNCHANGED <<seq, clock, nRequests, resp, returned, deleted>>

(* PUT /notes/{id}, lines 258-266: the re-read and the answer *)
UpdateReread(r) ==
    /\ resp = NoResponse
    /\ r.op = "update" /\ r.pc = "reread"
    /\ resp' = IF r.id \in DOMAIN notes
                 THEN [op |-> "update", status |-> 200, req |-> r,
                       body |-> _row_to_note(r.id)]
                 ELSE [op |-> "update", status |-> 404, req |-> r, body |-> NoBody]
    /\ inflight' = Remove(r)
    /\ UNCHANGED <<notes, seq, clock, nRequests, returned, deleted, submitted>>

-----------------------------------------------------------------------------
NoPayload == [title |-> <<>>]

Next ==
    \/ Deliver
    \/ \E op \in {"get", "delete"}, id \in PathIds : Reject(op, id, NoPayload)
    \/ \E p \in Payloads : Reject("create", 0, p)
    \/ \E id \in PathIds, p \in Payloads : Reject("update", id, p)
    \/ ListNotes
    \/ \E id \in PathIds : GetNote(id)
    \/ \E id \in PathIds : DeleteNote(id)
    \/ \E p \in Payloads, t \in Instants : nRequests < MaxRequests /\ CreateStart(p, t)
    \/ \E r \in Requests : CreateInsert(r)
    \/ \E r \in Requests : CreateReread(r)
    \/ \E id \in PathIds, p \in Payloads, t \in Instants :
          nRequests < MaxRequests /\ UpdateStart(id, p, t)
    \/ \E r \in Requests : UpdateExists(r)
    \/ \E r \in Requests : UpdateExec(r)
    \/ \E r \in Requests : UpdateReread(r)

\* Requests of any number of clients, their storage steps interleaved.
Spec == Init /\ [][Next]_vars

\* One client that waits for each answer before it sends the next request.
Idle == inflight = EmptyBag

SeqNext ==
    \/ Deliver
    \/ \E op \in {"get", "delete"}, id \in PathIds : Idle /\ Reject(op, id, NoPayload)
    \/ \E p \in Payloads : Idle /\ Reject("create", 0, p)
    \/ \E id \in PathIds, p \in Payloads : Idle /\ Reject("update", id, p)
    \/ Idle /\ ListNotes
    \/ \E id \in PathIds : Idle /\ GetNote(id)
    \/ \E id \in PathIds : Idle /\ DeleteNote(id)
    \/ \E p \in Payloads, t \in Instants :
          Idle /\ nRequests < MaxSeqRequests /\ CreateStart(p, t)
    \/ \E r \in Requests : CreateInsert(r)
    \/ \E r \in Requests : CreateReread(r)
    \/ \E id \in PathIds, p \in Payloads, t \in Instants :
          Idle /\ nRequests < MaxSeqRequests /\ UpdateStart(id, p, t)
    \/ \E r \in Requests : UpdateExists(r)
    \/ \E r \in Requests : UpdateExec(r)
    \/ \E r \in Requests : UpdateReread(r)

SeqSpec == Init /\ [][SeqNext]_vars

-----------------------------------------------------------------------------
(* Properties *)

Blank(s) == \A i \in 1..Len(s) : s[i] \in Whitespace

\* t is raw without its leading and trailing whitespace
Trimmed(raw, t) ==
    \E i \in 1..(Len(raw) + 1), j \in 0..Len(raw) :
        /\ t = SubSeq(raw, i, j)
        /\ \A k \in 1..(i - 1) : raw[k] \in Whitespace
        /\ \A k \in (j + 1)..Len(raw) : raw[k] \in Whitespace
        /\ t = <<>> \/ (t[1] \notin Whitespace /\ t[Len(t)] \notin Whitespace)

SubmittedContent(p) == IF "content" \in DOMAIN p THEN p.content ELSE <<>>

\* C1: every stored note has created_at <= updated_at, whatever the
\* interleaving of the storage steps of create, update and delete requests.
C1_CreatedNotAfterUpdated ==
    \A id \in DOMAIN notes : StrLeq(notes[id].created_at, notes[id].updated_at)

\* C2: the UPDATE of an update request never stores an updated_at smaller
\* than the one the note had just before that write.
C2_UpdatedAtNeverDecreases ==
    [][\A r \in Requests :
          UpdateExec(r) /\ r.id \in DOMAIN notes
            => StrLeq(notes[r.id].updated_at, notes'[r.id].updated_at)]_vars

\* The frame of an update: its UPDATE leaves the set of rows, the id
\* counter, every other row and the row's created_at as they were.
UpdateFrame(r) ==
    UpdateExec(r) =>
        /\ DOMAIN notes' = DOMAIN notes
        /\ seq' = seq
        /\ \A j \in DOMAIN notes :
              /\ j # r.id => notes'[j] = notes[j]
              /\ notes'[j].created_at = notes[j].created_at

C5_DeletedStaysGone ==
    (resp.op = "get" /\ resp.status # 422 /\ resp.req.id \in deleted)
        => (resp.status = 404 /\ resp.body = NoBody)

\* a 404 for a deleted id while an update of that id, past its existence
\* check when the delete committed, is still in flight
C5_Witness ==
    /\ resp.op = "get" /\ resp.status = 404
    /\ resp.req.id \in deleted
    /\ \E r \in Requests : r.op = "update" /\ r.id = resp.req.id
                            /\ r.pc = "reread" /\ ~r.wrote

\* C6: a list answers with exactly the stored notes, each once, by
\* updated_at descending and then id descending; with the empty sequence on
\* an empty table.  (The table is as the list read it while its answer is in
\* resp.)
C6_ListSorted ==
    resp.op = "list" =>
        LET b == resp.body
        IN  /\ resp.status = 200
            /\ Len(b) = Cardinality(DOMAIN notes)
            /\ { b[i] : i \in 1..Len(b) } = Rows
            /\ \A i, j \in 1..Len(b) : i < j =>
                  \/ StrLess(b[j].updated_at, b[i].updated_at)
                  \/ b[i].updated_at = b[j].updated_at /\ b[i].id > b[j].id
            /\ notes = <<>> => b = <<>>

\* a list of two notes, the older id first because it was updated last
C6_Witness ==
    /\ resp.op = "list"
    /\ Len(resp.body) = 2
    /\ resp.body[1].id < resp.body[2].id

\* C7: a get, update or delete of an id that matches no row is answered 404
\* and leaves the table as it was; the update ends at its existence check,
\* its UPDATE never executed.
C7_NotFoundLeavesStorage ==
    [][/\ resp'.op \in {"get", "delete"} /\ resp' # resp /\ resp'.status # 422
          /\ resp'.req.id \notin DOMAIN notes
            => resp'.status = 404 /\ notes' = notes /\ seq' = seq
       /\ \A r \in Requests :
             \* r, an update about to check a missing id, takes its step
             r.op = "update" /\ r.pc = "exists" /\ r.id \notin DOMAIN notes
             /\ CopiesIn(r, inflight') < CopiesIn(r, inflight)
               => /\ resp' = [op |-> "update", status |-> 404, req |-> r, body |-> NoBody]
                  /\ inflight' = Remove(r)
                  /\ notes' = notes /\ seq' = seq]_vars

\* an update answered 404 at its existence check, other notes stored
C7_Witness ==
    /\ resp.op = "update" /\ resp.status = 404
    /\ resp.req.pc = "exists"
    /\ notes # <<>>

BlankTitlesRefused ==
    \A p \in Payloads : Blank(p.title) =>
        /\ "title" \in Errors("create", 0, p)
        /\ \A id \in PathIds : "title" \in Errors("update", id, p)

\* C8: a create or update with an empty or whitespace-only title is refused
\* (422, the title named) and never enters its handler, so it writes nothing;
\* no stored title is empty or whitespace-only, and every stored title is the
\* title its writer submitted without leading and trailing whitespace.
C8_TitlesNormalized ==
    /\ BlankTitlesRefused
    /\ \A r \in Requests : ~Blank(r.payload.title) /\ Trimmed(r.payload.title, r.title)
    /\ \A id \in DOMAIN notes :
          /\ ~Blank(notes[id].title)
          /\ Trimmed(submitted[id], notes[id].title)

\* a title refused while a note is stored whose title was trimmed
C8_Witness ==
    /\ resp.op \in {"create", "update"} /\ resp.status = 422
    /\ "title" \in resp.body
    /\ \E id \in DOMAIN notes : submitted[id] # notes[id].title

NonPositiveIdsRefused ==
    \A op \in {"get", "update", "delete"}, id \in PathIds, p \in Payloads :
        id <= 0 => "id" \in Errors(op, id, p)

C10_FailedRequestWroteNothing ==
    (resp.op \in {"create", "update"} /\ resp.status \in {404, 500})
        => ~resp.req.wrote

====
